---- MODULE Spec2Model ----
(***************************************************************************)
(* CORD-19 metadata pipeline: loader, cleaner (three variants), profiler,  *)
(* aggregators and the command-line entry points, modelled from the Python *)
(* sources.  Text is a sequence of one-character strings; a DataFrame is a *)
(* record of its column set, its rows and the dtype of the year column.    *)
(***************************************************************************)
EXTENDS Integers, Sequences, FiniteSets, TLC

(***************************************************************************)
(* Bounds of the model.                                                    *)
(***************************************************************************)
MaxRows == 2

(***************************************************************************)
(* Characters and text.                                                    *)
(***************************************************************************)
UpperCase == <<"A","B","C","D","E","F","G","H","I","J","K","L","M",
               "N","O","P","Q","R","S","T","U","V","W","X","Y","Z">>
LowerCase == <<"a","b","c","d","e","f","g","h","i","j","k","l","m",
               "n","o","p","q","r","s","t","u","v","w","x","y","z">>
Digits == <<"0","1","2","3","4","5","6","7","8","9">>

UpperSet == {UpperCase[i] : i \in DOMAIN UpperCase}
LowerSet == {LowerCase[i] : i \in DOMAIN LowerCase}
DigitSet == {Digits[i] : i \in DOMAIN Digits}

IsUpper(c) == c \in UpperSet
IsLower(c) == c \in LowerSet
IsAlpha(c) == IsUpper(c) \/ IsLower(c)
IsDigit(c) == c \in DigitSet
IsSpace(c) == c = " "
\* \w of the re module: letters, digits and the underscore
IsWordChar(c) == IsAlpha(c) \/ IsDigit(c) \/ c = "_"

DigitVal(c) == (CHOOSE i \in DOMAIN Digits : Digits[i] = c) - 1

\* str.lower() / str.upper() on one character
LowerChar(c) == IF IsUpper(c) THEN LowerCase[CHOOSE i \in DOMAIN UpperCase : UpperCase[i] = c] ELSE c
UpperChar(c) == IF IsLower(c) THEN UpperCase[CHOOSE i \in DOMAIN LowerCase : LowerCase[i] = c] ELSE c

\* str.lower()
Lower(s) == [i \in DOMAIN s |-> LowerChar(s[i])]

\* the missing value of an object column (NaN / None); no text equals it
NaN == <<"NaN">>

\* str(x) / astype(str): a missing value prints as 'nan'
Str(x) == IF x = NaN THEN <<"n","a","n">> ELSE x

\* str.strip(): drop leading and trailing whitespace
RECURSIVE LStrip(_)
LStrip(s) == IF s # <<>> /\ IsSpace(Head(s)) THEN LStrip(Tail(s)) ELSE s
RECURSIVE RStrip(_)
RStrip(s) == IF s # <<>> /\ IsSpace(s[Len(s)]) THEN RStrip(SubSeq(s, 1, Len(s) - 1)) ELSE s
Strip(s) == RStrip(LStrip(s))

\* str.title(): first letter of every run of letters upper, the others lower
Title(s) == [i \in DOMAIN s |->
               IF i = 1 \/ ~IsAlpha(s[i - 1]) THEN UpperChar(s[i]) ELSE LowerChar(s[i])]

\* str.split() without arguments: the maximal runs of non-whitespace
RECURSIVE Split(_)
Split(s) ==
    LET t == LStrip(s)
    IN IF t = <<>> THEN <<>>
       ELSE LET ends == {j \in 1..Len(t) : j = Len(t) \/ IsSpace(t[j + 1])}
                e == CHOOSE j \in ends : \A k \in ends : j <= k
            IN <<SubSeq(t, 1, e)>> \o Split(SubSeq(t, e + 1, Len(t)))

\* len(str(x).split())
WordCount(x) == Len(Split(Str(x)))

\* ' '.join(seq)
RECURSIVE Join(_)
Join(ss) == IF ss = <<>> THEN <<>>
            ELSE IF Len(ss) = 1 THEN ss[1]
            ELSE ss[1] \o <<" ">> \o Join(Tail(ss))

(***************************************************************************)
(* Dates: pd.to_datetime(..., errors='coerce') and .dt.year, on ISO        *)
(* YYYY-MM-DD text (the format of the publish_time column) and on text     *)
(* that is no date.  A Timestamp is kept as its ISO text, NaT as NaN.      *)
(***************************************************************************)
\* the NaN of a numeric (float64) year column
YearNaN == -1

Num2(s, i) == 10 * DigitVal(s[i]) + DigitVal(s[i + 1])
YearOf(s) == 100 * Num2(s, 1) + Num2(s, 3)
MonthOf(s) == Num2(s, 6)
DayOf(s) == Num2(s, 9)
IsLeap(y) == (y % 4 = 0 /\ y % 100 # 0) \/ y % 400 = 0
DaysIn(y, m) == IF m = 2 THEN (IF IsLeap(y) THEN 29 ELSE 28)
                ELSE IF m \in {4, 6, 9, 11} THEN 30 ELSE 31

\* the text is a calendar date inside the range of a Timestamp
IsISODate(s) ==
    /\ Len(s) = 10
    /\ s[5] = "-" /\ s[8] = "-"
    /\ \A i \in {1, 2, 3, 4, 6, 7, 9, 10} : IsDigit(s[i])
    /\ YearOf(s) \in 1678..2261
    /\ MonthOf(s) \in 1..12
    /\ DayOf(s) \in 1..DaysIn(YearOf(s), MonthOf(s))

\* pd.to_datetime(x, errors='coerce') on one cell
to_datetime(x) == IF x # NaN /\ IsISODate(x) THEN x ELSE NaN

\* .dt.year on one cell
dt_year(ts) == IF ts = NaN THEN YearNaN ELSE YearOf(ts)

(***************************************************************************)
(* DataFrames.                                                             *)
(***************************************************************************)
UnknownTitle == <<"U","n","k","n","o","w","n"," ","T","i","t","l","e">>
UnknownJournal == <<"U","n","k","n","o","w","n"," ","J","o","u","r","n","a","l">>
EmptyText == <<>>
FallbackYear == 2020

RawCols == {"title", "abstract", "journal", "publish_time"}

\* important_cols of data_cleaning.clean_and_prepare_data
ImportantCols == {"title", "abstract", "authors", "journal", "publish_time",
                  "source_x", "has_full_text", "cord_uid"}

\* one row as read from the file: idx is the row's index label; the cells of
\* columns the frame does not have are NaN and never read
RawRow(i, t, a, j, p) ==
    [idx |-> i, title |-> t, abstract |-> a, journal |-> j, publish_time |-> p,
     year |-> YearNaN, abstract_word_count |-> 0, title_word_count |-> 0,
     has_abstract |-> FALSE]

Frame(cols, rows, dt) == [cols |-> cols, rows |-> rows, year_dtype |-> dt]

\* the value None (no frame)
None == Frame({"None"}, <<>>, "None")

\* Series.fillna(v) assigned back to the column
fillna_dropna(df, col, v) ==
    [df EXCEPT !.rows = SelectSeq(@, LAMBDA r : r[col] # NaN)]
fillna(df, col, v) ==
    [df EXCEPT !.rows = [i \in DOMAIN @ |->
                           IF @[i][col] = NaN THEN [@[i] EXCEPT ![col] = v] ELSE @[i]]]

\* df[col] = v for a scalar v: every row gets v, the column exists afterwards
assign_scalar(df, col, v) ==
    [df EXCEPT !.rows = [i \in DOMAIN @ |-> [@[i] EXCEPT ![col] = v]],
               !.cols = @ \cup {col}]

\* df[col] = df[src].apply(f)
assign_apply(df, col, src, f(_)) ==
    [df EXCEPT !.rows = [i \in DOMAIN df.rows |->
                           [df.rows[i] EXCEPT ![col] = f(df.rows[i][src])]],
               !.cols = @ \cup {col}]

\* df['publish_time'] = pd.to_datetime(df['publish_time'], errors='coerce')
\* df['year'] = df['publish_time'].dt.year
\* .dt.year is int32 unless some value is NaT, which makes the column float64
extract_year(df) ==
    LET d1 == assign_apply(df, "publish_time", "publish_time", to_datetime)
        d2 == assign_apply(d1, "year", "publish_time", dt_year)
    IN [d2 EXCEPT !.year_dtype =
            IF \E i \in DOMAIN d2.rows : d2.rows[i].year = YearNaN
            THEN "float64" ELSE "int32"]

\* df['year'] = df['year'].fillna(2020).astype(int)
fill_year(df) ==
    [df EXCEPT !.rows = [i \in DOMAIN @ |->
                           IF @[i].year = YearNaN
                           THEN [@[i] EXCEPT !.year = FallbackYear] ELSE @[i]],
               !.year_dtype = "int64"]

\* abstract_word_count, has_abstract (and title_word_count where derived)
derive_features(df, with_title_count) ==
    LET d1 == assign_apply(df, "abstract_word_count", "abstract", WordCount)
        d2 == IF with_title_count
              THEN assign_apply(d1, "title_word_count", "title", WordCount)
              ELSE d1
    IN [d2 EXCEPT !.rows = [i \in DOMAIN d2.rows |->
                              [d2.rows[i] EXCEPT !.has_abstract =
                                                     d2.rows[i].abstract_word_count > 0]],
                  !.cols = @ \cup {"has_abstract"}]

\* the outcome of a call: a returned frame, or the exception it raised
Ok(df) == [err |-> "", df |-> df]
Raise(e) == [err |-> e, df |-> None]

(***************************************************************************)
(* The three cleaners.                                                     *)
(***************************************************************************)
\* data_cleaning.clean_and_prepare_data: indexes title, abstract,
\* publish_time and journal unconditionally (KeyError when the column is
\* absent), leaves unparseable years NaN, strips and title-cases the journal
clean_and_prepare_data_dc(df) ==
    LET d0 == [df EXCEPT !.cols = @ \cap ImportantCols]
    IN IF ~({"title", "abstract", "publish_time", "journal"} \subseteq d0.cols)
       THEN Raise("KeyError")
       ELSE LET d1 == fillna(d0, "title", UnknownTitle)
                d2 == fillna(d1, "abstract", EmptyText)
                d3 == extract_year(d2)
                d4 == derive_features(d3, TRUE)
                d5 == fillna(d4, "journal", UnknownJournal)
                d6 == assign_apply(d5, "journal", "journal", LAMBDA x : Title(Strip(x)))
            IN Ok(d6)

\* src/main.clean_and_prepare_data with the features derived before the fills
clean_and_prepare_data_main_derive_first(df) ==
    LET d0 == derive_features(df, TRUE)
        d1 == IF "title" \in d0.cols THEN fillna(d0, "title", UnknownTitle)
              ELSE assign_scalar(d0, "title", UnknownTitle)
        d2 == IF "abstract" \in d1.cols THEN fillna(d1, "abstract", EmptyText)
              ELSE assign_scalar(d1, "abstract", EmptyText)
        d3 == IF "journal" \in d2.cols THEN fillna(d2, "journal", UnknownJournal)
              ELSE assign_scalar(d2, "journal", UnknownJournal)
        d4 == IF "publish_time" \in d3.cols THEN fill_year(extract_year(d3))
              ELSE [assign_scalar(d3, "year", FallbackYear) EXCEPT !.year_dtype = "int64"]
    IN Ok(d4)

\* src/main.clean_and_prepare_data: every column is probed, absent ones get
\* the default
clean_and_prepare_data_main(df) ==
    LET d1 == IF "title" \in df.cols THEN fillna(df, "title", UnknownTitle)
              ELSE assign_scalar(df, "title", UnknownTitle)
        d2 == IF "abstract" \in d1.cols THEN fillna(d1, "abstract", EmptyText)
              ELSE assign_scalar(d1, "abstract", EmptyText)
        d3 == IF "journal" \in d2.cols THEN fillna(d2, "journal", UnknownJournal)
              ELSE assign_scalar(d2, "journal", UnknownJournal)
        d4 == IF "publish_time" \in d3.cols THEN fill_year(extract_year(d3))
              ELSE [assign_scalar(d3, "year", FallbackYear) EXCEPT !.year_dtype = "int64"]
    IN Ok(derive_features(d4, TRUE))

\* the cleaning block of preprocess_data.preprocess_and_save: title and
\* abstract are indexed unconditionally, journal and publish_time are probed
clean_preprocess(df) ==
    IF ~({"title", "abstract"} \subseteq df.cols)
    THEN Raise("KeyError")
    ELSE LET d1 == fillna(df, "title", UnknownTitle)
             d2 == fillna(d1, "abstract", EmptyText)
             d3 == IF "journal" \in d2.cols THEN fillna(d2, "journal", UnknownJournal)
                   ELSE assign_scalar(d2, "journal", UnknownJournal)
             d4 == IF "publish_time" \in d3.cols THEN fill_year(extract_year(d3))
                   ELSE [assign_scalar(d3, "year", FallbackYear) EXCEPT !.year_dtype = "int64"]
         IN Ok(derive_features(d4, FALSE))

(***************************************************************************)
(* Aggregators.                                                            *)
(***************************************************************************)
\* stop_words of analysis_visualization.analyze_titles
StopWordsAV ==
    {<<"t","h","e">>, <<"a","n","d">>, <<"o","f">>, <<"i","n">>, 
     <<"t","o">>, <<"a">>, <<"f","o","r">>, <<"w","i","t","h">>, 
     <<"o","n">>, <<"b","y">>, <<"a","s">>, <<"a","n">>, 
     <<"f","r","o","m">>, <<"t","h","a","t">>, <<"t","h","i","s">>, 
     <<"i","s">>, <<"a","r","e">>, <<"w","a","s">>, <<"w","e","r","e">>}

\* stop_words of src/main.analyze_titles
StopWordsMain ==
    {<<"t","h","e">>, <<"a","n","d">>, <<"o","f">>, <<"i","n">>, 
     <<"t","o">>, <<"a">>, <<"f","o","r">>, <<"w","i","t","h">>, 
     <<"o","n">>, <<"b","y">>, <<"a","s">>, <<"a","n">>, 
     <<"f","r","o","m">>, <<"t","h","a","t">>, <<"t","h","i","s">>, 
     <<"i","s">>, <<"a","r","e">>, <<"w","a","s">>, <<"w","e","r","e">>, 
     <<"c","o","v","i","d">>, <<"1","9">>, <<"s","a","r","s">>, 
     <<"c","o","v">>, <<"2">>, 
     <<"c","o","r","o","n","a","v","i","r","u","s">>, 
     <<"s","t","u","d","y">>, <<"r","e","s","e","a","r","c","h">>, 
     <<"b","a","s","e","d">>, <<"u","s","i","n","g">>, 
     <<"a","n","a","l","y","s","i","s">>, <<"d","u","r","i","n","g">>, 
     <<"a","m","o","n","g">>, <<"b","e","t","w","e","e","n">>}

\* stop_words of the title tab of app.py
StopWordsApp ==
    {<<"t","h","e">>, <<"a","n","d">>, <<"o","f">>, <<"i","n">>, 
     <<"t","o">>, <<"a">>, <<"f","o","r">>, <<"w","i","t","h">>, 
     <<"o","n">>, <<"b","y">>}

\* stop_words of the title tab of src/app/app.py
StopWordsAppOpt ==
    {<<"t","h","e">>, <<"a","n","d">>, <<"o","f">>, <<"i","n">>, 
     <<"t","o">>, <<"a">>, <<"f","o","r">>, <<"w","i","t","h">>, 
     <<"o","n">>, <<"b","y">>, <<"a","s">>, <<"a","n">>, 
     <<"f","r","o","m">>, <<"t","h","a","t">>, <<"t","h","i","s">>, 
     <<"i","s">>, <<"a","r","e">>, <<"w","a","s">>, <<"w","e","r","e">>, 
     <<"c","o","v","i","d">>, <<"1","9">>, <<"s","a","r","s">>, 
     <<"c","o","v">>, <<"2">>, 
     <<"c","o","r","o","n","a","v","i","r","u","s">>, 
     <<"s","t","u","d","y">>, <<"r","e","s","e","a","r","c","h">>}

\* \b between positions p-1 and p of s (p in 1..Len(s)+1)
WordBoundary_never(s, p) == TRUE
WordBoundary(s, p) ==
    LET before == p > 1 /\ IsWordChar(s[p - 1])
        after == p <= Len(s) /\ IsWordChar(s[p])
    IN before # after

\* where the match of \b[a-zA-Z]{3,}\b that starts at p ends, 0 when there is
\* none: the quantifier is greedy and gives letters back until \b holds
MatchEnd(s, p) ==
    IF ~WordBoundary(s, p) THEN 0
    ELSE LET ends == {j \in p + 2..Len(s) :
                        /\ \A k \in p..j : IsAlpha(s[k])
                        /\ WordBoundary(s, j + 1)}
         IN IF ends = {} THEN 0 ELSE CHOOSE j \in ends : \A k \in ends : k <= j

\* re.findall(r'\b[a-zA-Z]{3,}\b', s): non-overlapping matches, left to right
RECURSIVE findall_from(_, _)
findall_from(s, p) ==
    IF p > Len(s) THEN <<>>
    ELSE LET e == MatchEnd(s, p)
         IN IF e = 0 THEN findall_from(s, p + 1)
            ELSE <<SubSeq(s, p, e)>> \o findall_from(s, e + 1)
findall(s) == findall_from(s, 1)

\* collections.Counter(words): (word, count) pairs in order of first occurrence
RECURSIVE Counter(_)
Counter(words) ==
    IF words = <<>> THEN <<>>
    ELSE LET n == Len(words)
             c == Counter(SubSeq(words, 1, n - 1))
             x == words[n]
         IN IF \E i \in DOMAIN c : c[i][1] = x
            THEN [i \in DOMAIN c |-> IF c[i][1] = x THEN <<x, c[i][2] + 1>> ELSE c[i]]
            ELSE Append(c, <<x, 1>>)

\* remove the i-th element
RemoveAt(q, i) == SubSeq(q, 1, i - 1) \o SubSeq(q, i + 1, Len(q))

\* sorted(pairs, key=count, reverse=True): stable, equal counts keep their order
RECURSIVE sorted_desc(_)
sorted_desc(pairs) ==
    IF pairs = <<>> THEN <<>>
    ELSE LET i == CHOOSE k \in DOMAIN pairs :
                    /\ \A m \in DOMAIN pairs : pairs[m][2] <= pairs[k][2]
                    /\ \A m \in 1..k - 1 : pairs[m][2] < pairs[k][2]
         IN <<pairs[i]>> \o sorted_desc(RemoveAt(pairs, i))

\* seq[:n] / Series.head(n)
head_plus_one(q, n) == SubSeq(q, 1, IF Len(q) < n + 1 THEN Len(q) ELSE n + 1)
head(q, n) == SubSeq(q, 1, IF Len(q) < n THEN Len(q) ELSE n)

\* Counter.most_common(n)
most_common(c, n) == head(sorted_desc(c), n)

\* the title column as a list of text, missing values dropped or printed 'nan'
title_texts(df, dropna) ==
    LET ts == [i \in DOMAIN df.rows |-> df.rows[i].title]
        kept == IF dropna THEN SelectSeq(ts, LAMBDA t : t # NaN) ELSE ts
    IN [i \in DOMAIN kept |-> Str(kept[i])]

\* the tokenising and counting block shared by every analyze_titles variant:
\* join, lower, findall, drop the stop words, Counter
word_frequencies(titles, stop_words) ==
    LET words == findall(Lower(Join(titles)))
        filtered_words == SelectSeq(words, LAMBDA x : x \notin stop_words)
    IN Counter(filtered_words)

\* Series.value_counts() on an ascending-sorted index: (value, count) pairs;
\* NaN is not counted
RECURSIVE sort_index(_)
sort_index(S) ==
    IF S = {} THEN <<>>
    ELSE LET m == CHOOSE x \in S : \A y \in S : x[1] <= y[1]
         IN <<m>> \o sort_index(S \ {m})

\* df['year'].value_counts().sort_index()
yearly_counts_of(df) ==
    LET ys == {df.rows[i].year : i \in DOMAIN df.rows} \ {YearNaN}
    IN sort_index({<<y, Cardinality({i \in DOMAIN df.rows : df.rows[i].year = y})>> : y \in ys})

\* the sum of the counts of a (value, count) list
RECURSIVE SumCounts(_)
SumCounts(pairs) == IF pairs = <<>> THEN 0 ELSE pairs[1][2] + SumCounts(Tail(pairs))

\* Series.value_counts(): (value, count) pairs, counts non-increasing, NaN not
\* counted.  The order among equal counts is left open by the sort, so every
\* such order is a possible result.
RECURSIVE DescendingOrders(_)
DescendingOrders(S) ==
    IF S = {} THEN {<<>>}
    ELSE LET top == {m \in S : \A x \in S : x[2] <= m[2]}
         IN UNION {{<<m>> \o r : r \in DescendingOrders(S \ {m})} : m \in top}

column(df, col) == [i \in DOMAIN df.rows |-> df.rows[i][col]]

value_counts(vals) ==
    LET present == {vals[i] : i \in DOMAIN vals} \ {NaN}
    IN DescendingOrders({<<v, Cardinality({i \in DOMAIN vals : vals[i] = v})>> : v \in present})

\* safe_value_counts of src/app/app.py
Unknown == <<"U","n","k","n","o","w","n">>
safe_value_counts(vals, default_name) ==
    IF \A i \in DOMAIN vals : vals[i] = NaN
    THEN {<< <<default_name, Len(vals)>> >>}
    ELSE value_counts([i \in DOMAIN vals |-> IF vals[i] = NaN THEN default_name ELSE vals[i]])

TopJournalsN == 15

\* a percentage kept exact: num / den (float rounding keeps the order)
Ratio(num, den) == [num |-> num, den |-> den]
RatioLeq(a, b) == a.num * b.den <= b.num * a.den

\* df.isnull().sum() of one column
isnull_sum(df, col) == Cardinality({i \in DOMAIN df.rows : df.rows[i][col] = NaN})

\* (df.isnull().sum() / len(df)) * 100: one value per column; 0/0 is NaN
missing_percent(df) ==
    {<<c, Ratio(100 * isnull_sum(df, c), Len(df.rows))>> : c \in df.cols}

\* missing_percent[missing_percent > 0]: NaN > 0 is False
greater_than_zero_or_equal(S) == {x \in S : x[2].den # 0 /\ x[2].num >= 0}
greater_than_zero(S) == {x \in S : x[2].den # 0 /\ x[2].num > 0}

\* .sort_values(ascending=False): the sort is not stable, so every order of
\* equal values is a possible result
RECURSIVE sort_values_descending(_)
sort_values_descending(S) ==
    IF S = {} THEN {<<>>}
    ELSE LET top == {m \in S : \A x \in S : RatioLeq(x[2], m[2])}
         IN UNION {{<<m>> \o r : r \in sort_values_descending(S \ {m})} : m \in top}

\* data_cleaning.analyze_missing_data: the possible return values
analyze_missing_data(df) == sort_values_descending(greater_than_zero(missing_percent(df)))
TopWordsN == 20

(***************************************************************************)
(* Files and loaders.  A file is absent, good, empty (no header to read),  *)
(* malformed (the header reads, the body does not parse) or mismatched     *)
(* (reading it with a column subset fails, reading all columns works).     *)
(***************************************************************************)
FileKinds == {"absent", "good", "mismatch", "malformed", "empty"}

File(kind, table) == [kind |-> kind, table |-> table]

\* the outcome of a loader: the exception raised ("" when it returned), the
\* value returned, whether a problem was reported to the user, and the reads
\* attempted as (mode, exception) pairs
Outcome(err, df, reported, reads) ==
    [err |-> err, df |-> df, reported |-> reported, reads |-> reads]

\* the exception pd.read_csv raises on the file, "" when it reads it;
\* mode is "header" (nrows=1), "subset" (usecols=...) or "all"
read_csv_err(file, mode) ==
    CASE file.kind = "absent" -> "FileNotFoundError"
      [] file.kind = "empty" -> "EmptyDataError"
      [] file.kind = "malformed" /\ mode # "header" -> "ParserError"
      [] file.kind = "mismatch" /\ mode = "subset" -> "ValueError"
      [] OTHER -> ""

\* data_exploration.load_and_explore_data: only FileNotFoundError is caught
load_and_explore_data_top(file) ==
    LET e == read_csv_err(file, "all")
        reads == << <<"all", e>> >>
    IN IF e = "" THEN Outcome("", file.table, FALSE, reads)
       ELSE IF e = "FileNotFoundError" THEN Outcome("", None, TRUE, reads)
       ELSE Outcome(e, None, FALSE, reads)

\* src/main.detect_columns: the header as a frame without rows, or None
detect_columns(file) ==
    LET e == read_csv_err(file, "header")
        reads == << <<"header", e>> >>
    IN IF e = "" THEN Outcome("", Frame(file.table.cols, <<>>, "None"), FALSE, reads)
       ELSE Outcome("", None, TRUE, reads)

\* src/main.load_and_explore_data after detect_columns returned the columns
load_without_fallback(file) ==
    LET e1 == read_csv_err(file, "subset")
    IN IF e1 = "" THEN Outcome("", file.table, FALSE, << <<"subset", e1>> >>)
       ELSE Outcome("", None, TRUE, << <<"subset", e1>> >>)
load_with_fallback(file) ==
    LET e1 == read_csv_err(file, "subset")
        e2 == read_csv_err(file, "all")
    IN IF e1 = "" THEN Outcome("", file.table, FALSE, << <<"subset", e1>> >>)
       ELSE IF e2 = "" THEN Outcome("", file.table, TRUE, << <<"subset", e1>>, <<"all", e2>> >>)
       ELSE Outcome("", None, TRUE, << <<"subset", e1>>, <<"all", e2>> >>)

\* the loading block of preprocess_and_save: header and subset read inside
\* one try, the fallback read outside any handler
load_preprocess(file) ==
    LET e0 == read_csv_err(file, "header")
        e1 == read_csv_err(file, "subset")
        e2 == read_csv_err(file, "all")
        first == IF e0 # "" THEN << <<"header", e0>> >>
                 ELSE << <<"header", e0>>, <<"subset", e1>> >>
    IN IF e0 = "" /\ e1 = "" THEN Outcome("", file.table, FALSE, first)
       ELSE IF e2 = "" THEN Outcome("", file.table, TRUE, Append(first, <<"all", e2>>))
       ELSE Outcome(e2, None, TRUE, Append(first, <<"all", e2>>))

\* the cleaning inside app.load_data: the four columns are indexed
\* unconditionally, the year stays NaN where the date does not parse
clean_app(df) ==
    IF ~(RawCols \subseteq df.cols) THEN Raise("KeyError")
    ELSE Ok(fillna(fillna(fillna(extract_year(df), "abstract", EmptyText),
                          "title", UnknownTitle), "journal", UnknownJournal))

\* app.load_data: read, clean; only FileNotFoundError is caught
load_data(file) ==
    LET e == read_csv_err(file, "all")
        reads == << <<"all", e>> >>
        c == clean_app(file.table)
    IN IF e = "FileNotFoundError" THEN Outcome("", None, TRUE, reads)
       ELSE IF e # "" THEN Outcome(e, None, FALSE, reads)
       ELSE Outcome(c.err, c.df, FALSE, reads)

\* src/app/app.load_optimized_data: pd.read_parquet of the snapshot
load_optimized_data(file) ==
    LET e == IF file.kind = "absent" THEN "FileNotFoundError" ELSE ""
        reads == << <<"all", e>> >>
    IN IF e = "" THEN Outcome("", file.table, FALSE, reads)
       ELSE Outcome("", None, TRUE, reads)

\* `if df is None: return` of the main functions
is_none_never(d) == FALSE
is_none(d) == d = None

(***************************************************************************)
(* The programs as a state machine.                                        *)
(*   file      the input file of the run                                   *)
(*   entry     the program run: main.py, src/main.py, preprocess_data.py,  *)
(*             app.py or src/app/app.py                                    *)
(*   pc        the step the run is at                                      *)
(*   df        the value the loader returned (None before)                 *)
(*   df_clean  the value the cleaner returned (None before)                *)
(*   results   what the aggregators returned                               *)
(*   ran       the steps executed so far, in order                         *)
(*   written   the files written so far                                    *)
(*   snapshot  the frame saved as the cleaned-data snapshot                *)
(*   err       the exception that ended the run, "" when none              *)
(*   reported  whether a loading problem was reported to the user          *)
(*   reads     the reads of the input file attempted, (mode, exception)    *)
(*   request   the arguments of a direct call of an aggregator             *)
(* Rendering is not modelled: a plotting call draws and savefig writes.    *)
(***************************************************************************)
VARIABLES file, entry, pc, df, df_clean, results, ran, written, snapshot,
          err, reported, reads, request, cache, filtered_df

vars == <<file, entry, pc, df, df_clean, results, ran, written, snapshot,
          err, reported, reads, request, cache, filtered_df>>

TitleValues == {NaN, <<"T","h","e">>}
AbstractValues == {NaN, <<"a"," ","b">>}
JournalValues == {NaN, <<" ","b","M","j">>}
DateValues == {NaN, <<"2","0","1","9","-","0","6","-","3","0">>}

\* the values a column's cells take; a column the frame lacks holds NaN
CellValues(col, cols, values) == IF col \in cols THEN values ELSE {NaN}

\* the rows a file with the given columns can hold
Cells(cols) ==
    [title : CellValues("title", cols, TitleValues),
     abstract : CellValues("abstract", cols, AbstractValues),
     journal : CellValues("journal", cols, JournalValues),
     publish_time : CellValues("publish_time", cols, DateValues)]

\* the frame read_csv returns for a file with these columns and these rows
FrameOf(cols, c) ==
    Frame(cols, [i \in DOMAIN c |-> RawRow(i - 1, c[i].title, c[i].abstract,
                                           c[i].journal, c[i].publish_time)], "None")

EmptyFrame == Frame({}, <<>>, "None")

NoResults == [missing_data |-> <<>>, yearly_counts |-> <<>>, top_journals |-> <<>>,
              word_freq |-> <<>>, top_words |-> <<>>, with_abstract |-> 0,
              total_papers |-> 0]

NoRequest == [top_n |-> 0]

\* st.cache_data before any call
NoCache == [k \in {} |-> None]

CsvEntries == {"main_top", "main_src", "preprocess", "app"}
MainEntries == {"main_top", "main_src"}
\* the programs that read the file with usecols first
SubsetReaders == {"main_src", "preprocess"}

\* the file on disk: absent, unreadable, or a table with a title column, any
\* of the other columns and up to MaxRows rows; a mismatched file (one whose
\* subset read fails) is a short one; src/app/app.py reads the snapshot
\* preprocess_and_save wrote of such a table
Init ==
    /\ \/ /\ file \in {File(k, EmptyFrame) : k \in {"absent", "malformed", "empty"}}
          /\ entry \in CsvEntries
       \/ /\ file = File("absent", EmptyFrame)
          /\ entry = "app_opt"
       \/ \E cols \in SUBSET (RawCols \ {"title"}), n \in 0..MaxRows :
            \E c \in [1..n -> Cells({"title"} \cup cols)] :
              LET t == FrameOf({"title"} \cup cols, c)
              IN \/ /\ file = File("good", t)
                    /\ entry \in CsvEntries
                 \/ /\ n < MaxRows
                    /\ file = File("mismatch", t)
                    /\ entry \in SubsetReaders
                 \/ /\ clean_preprocess(t).err = ""
                    /\ file = File("good", clean_preprocess(t).df)
                    /\ entry = "app_opt"
    /\ pc = IF entry = "main_src" THEN "detect" ELSE "load"
    /\ df = None
    /\ df_clean = None
    /\ results = NoResults
    /\ ran = <<>>
    /\ written = {}
    /\ snapshot = None
    /\ err = ""
    /\ reported = FALSE
    /\ reads = <<>>
    /\ request = NoRequest
    /\ cache = NoCache
    /\ filtered_df = None

\* what a loader's outcome does to the run: the exception propagates, or the
\* caller tests the value for None and returns, or the run goes on
AfterLoad(o, next) ==
    /\ df' = o.df
    /\ err' = o.err
    /\ reported' = (reported \/ o.reported)
    /\ reads' = reads \o o.reads
    /\ ran' = Append(ran, "load")
    /\ pc' = IF o.err # "" THEN "raised" ELSE IF is_none(o.df) THEN "done" ELSE next
    /\ UNCHANGED <<cache, filtered_df, request, file, entry, df_clean, results, written, snapshot>>

\* src/main.load_and_explore_data, first half: detect_columns; None ends the
\* loader, and main returns on the None it gets
DetectColumns ==
    /\ entry = "main_src" /\ pc = "detect"
    /\ LET o == detect_columns(file)
       IN IF o.df = None THEN AfterLoad(o, "clean")
          ELSE /\ reads' = reads \o o.reads
               /\ pc' = "load"
               /\ UNCHANGED <<cache, filtered_df, request, file, entry, df, df_clean, results, ran, written,
                              snapshot, err, reported>>

LoadTop ==
    /\ entry = "main_top" /\ pc = "load"
    /\ AfterLoad(load_and_explore_data_top(file), "missing")

LoadSrc ==
    /\ entry = "main_src" /\ pc = "load"
    /\ AfterLoad(load_with_fallback(file), "clean")

LoadPreprocess ==
    /\ entry = "preprocess" /\ pc = "load"
    /\ AfterLoad(load_preprocess(file), "clean")

LoadApp ==
    /\ entry = "app" /\ pc = "load"
    /\ AfterLoad(load_data(file), "loaded")

LoadAppOpt ==
    /\ entry = "app_opt" /\ pc = "load"
    /\ AfterLoad(load_optimized_data(file), "loaded")

\* main.py step 2: analyze_missing_data on the loaded frame
Missing ==
    /\ entry = "main_top" /\ pc = "missing"
    /\ \E missing_data \in analyze_missing_data(df) :
           results' = [results EXCEPT !.missing_data = missing_data]
    /\ ran' = Append(ran, "missing")
    /\ pc' = "clean"
    /\ UNCHANGED <<cache, filtered_df, request, file, entry, df, df_clean, written, snapshot,
                   err, reported, reads>>

\* what a cleaner's outcome does to the run
AfterClean(c, next) ==
    /\ df_clean' = c.df
    /\ err' = c.err
    /\ ran' = Append(ran, "clean")
    /\ pc' = IF c.err # "" THEN "raised" ELSE next
    /\ UNCHANGED <<cache, filtered_df, request, file, entry, df, results, written, snapshot, reported, reads>>

CleanTop ==
    /\ entry = "main_top" /\ pc = "clean"
    /\ AfterClean(clean_and_prepare_data_dc(df), "trends")

CleanSrc ==
    /\ entry = "main_src" /\ pc = "clean"
    /\ AfterClean(clean_and_prepare_data_main(df), "trends")

\* preprocess_and_save cleans the loaded frame in place
CleanPreprocess ==
    /\ entry = "preprocess" /\ pc = "clean"
    /\ LET c == clean_preprocess(df)
       IN /\ df_clean' = c.df
          /\ df' = IF c.err = "" THEN c.df ELSE df
          /\ err' = c.err
          /\ ran' = Append(ran, "clean")
          /\ pc' = IF c.err # "" THEN "raised" ELSE "save"
    /\ UNCHANGED <<cache, filtered_df, request, file, entry, results, written, snapshot, reported, reads>>

\* the table both main functions pass to the analysis steps: df_clean
analysis_input_raw == df
analysis_input == df_clean

\* analyze_publication_trends (both files): yearly counts, one chart
Trends ==
    /\ entry \in MainEntries /\ pc = "trends"
    /\ results' = [results EXCEPT !.yearly_counts = yearly_counts_of(analysis_input)]
    /\ written' = written \cup {"publications_by_year.png"}
    /\ ran' = Append(ran, "trends")
    /\ pc' = "journals"
    /\ UNCHANGED <<cache, filtered_df, request, file, entry, df, df_clean, snapshot, err, reported, reads>>

\* what .value_counts().head(n) of the journal column and its chart do to the run
AfterJournals(orders, n, next) ==
    /\ \E order \in orders :
           results' = [results EXCEPT !.top_journals = head(order, n)]
    /\ written' = written \cup {"top_journals.png"}
    /\ ran' = Append(ran, "journals")
    /\ pc' = next
    /\ UNCHANGED <<cache, filtered_df, request, file, entry, df, df_clean, snapshot, err, reported, reads>>

\* analyze_journals (both files): value_counts().head(15), one chart
Journals ==
    /\ entry \in MainEntries /\ pc = "journals"
    /\ AfterJournals(value_counts(column(analysis_input, "journal")), TopJournalsN, "titles")

\* what analyze_titles does to the run: zip(*top_words) cannot be unpacked
\* into (words, counts) when top_words is empty, and raises ValueError
AfterTitles(word_freq, n, charts, next) ==
    LET top_words == most_common(word_freq, n)
    IN /\ ran' = Append(ran, "titles")
       /\ IF top_words = <<>>
          THEN /\ err' = "ValueError"
               /\ pc' = "raised"
               /\ UNCHANGED <<results, written>>
          ELSE /\ results' = [results EXCEPT !.word_freq = word_freq,
                                             !.top_words = top_words]
               /\ written' = written \cup charts
               /\ err' = err
               /\ pc' = next
       /\ UNCHANGED <<cache, filtered_df, request, file, entry, df, df_clean, snapshot, reported, reads>>

\* analysis_visualization.analyze_titles: missing titles dropped
TitlesTop ==
    /\ entry = "main_top" /\ pc = "titles"
    /\ AfterTitles(word_frequencies(title_texts(analysis_input, TRUE), StopWordsAV),
                   TopWordsN, {"top_title_words.png", "title_wordcloud.png"}, "sources")

\* src/main.analyze_titles
TitlesSrc ==
    /\ entry = "main_src" /\ pc = "titles"
    /\ AfterTitles(word_frequencies(title_texts(analysis_input, FALSE), StopWordsMain),
                   TopWordsN, {"top_title_words.png"}, "abstracts")

\* analyze_sources: no chart unless the frame has a source_x column
Sources ==
    /\ entry = "main_top" /\ pc = "sources"
    /\ written' = IF "source_x" \in analysis_input.cols
                  THEN written \cup {"sources_distribution.png"} ELSE written
    /\ ran' = Append(ran, "sources")
    /\ pc' = "hist"
    /\ UNCHANGED <<cache, filtered_df, request, file, entry, df, df_clean, results, snapshot, err, reported, reads>>

\* the abstract word count histogram at the end of run_complete_analysis
Hist ==
    /\ entry = "main_top" /\ pc = "hist"
    /\ written' = written \cup {"abstract_length_distribution.png"}
    /\ ran' = Append(ran, "hist")
    /\ pc' = "save"
    /\ UNCHANGED <<cache, filtered_df, request, file, entry, df, df_clean, results, snapshot, err, reported, reads>>

\* src/main.analyze_abstracts
Abstracts ==
    /\ entry = "main_src" /\ pc = "abstracts"
    /\ results' = [results EXCEPT !.with_abstract =
                      Cardinality({i \in DOMAIN analysis_input.rows :
                                       analysis_input.rows[i].has_abstract})]
    /\ written' = written \cup {"abstract_length_distribution.png", "abstract_presence.png"}
    /\ ran' = Append(ran, "abstracts")
    /\ pc' = "save"
    /\ UNCHANGED <<cache, filtered_df, request, file, entry, df, df_clean, snapshot, err, reported, reads>>

\* the table both main functions write as the cleaned snapshot: df_clean
saved_table_raw == df
saved_table == df_clean

\* main.py step 5: df_clean.to_csv
SaveTop ==
    /\ entry = "main_top" /\ pc = "save"
    /\ snapshot' = saved_table
    /\ written' = written \cup {"cleaned_metadata.csv"}
    /\ ran' = Append(ran, "save")
    /\ pc' = "summary"
    /\ UNCHANGED <<cache, filtered_df, request, file, entry, df, df_clean, results, err, reported, reads>>

\* src/main.py step 4: to_parquet, to_csv when that raises
SaveSrc ==
    /\ entry = "main_src" /\ pc = "save"
    /\ snapshot' = saved_table
    /\ \E parquet_ok \in BOOLEAN :
           written' = written \cup {IF parquet_ok THEN "data/cleaned_metadata.parquet"
                                    ELSE "data/cleaned_metadata.csv"}
    /\ ran' = Append(ran, "save")
    /\ pc' = "summary"
    /\ UNCHANGED <<cache, filtered_df, request, file, entry, df, df_clean, results, err, reported, reads>>

\* preprocess_and_save: the snapshot and its sample
SavePreprocess ==
    /\ entry = "preprocess" /\ pc = "save"
    /\ snapshot' = df
    /\ written' = written \cup {"metadata_optimized.parquet", "metadata_sample.parquet"}
    /\ ran' = Append(ran, "save")
    /\ pc' = "done"
    /\ UNCHANGED <<cache, filtered_df, request, file, entry, df, df_clean, results, err, reported, reads>>

\* the summary of both main functions: int(df['year'].min()) raises
\* ValueError when no row has a year
Summary ==
    /\ entry \in MainEntries /\ pc = "summary"
    /\ ran' = Append(ran, "summary")
    /\ IF \A i \in DOMAIN df_clean.rows : df_clean.rows[i].year = YearNaN
       THEN err' = "ValueError" /\ pc' = "raised"
       ELSE err' = err /\ pc' = "done"
    /\ UNCHANGED <<cache, filtered_df, request, file, entry, df, df_clean, results, written, snapshot, reported, reads>>

Next ==
    \/ DetectColumns
    \/ LoadTop
    \/ LoadSrc
    \/ LoadPreprocess
    \/ LoadApp
    \/ LoadAppOpt
    \/ Missing
    \/ CleanTop
    \/ CleanSrc
    \/ CleanPreprocess
    \/ Trends
    \/ Journals
    \/ TitlesTop
    \/ TitlesSrc
    \/ Sources
    \/ Hist
    \/ Abstracts
    \/ SaveTop
    \/ SaveSrc
    \/ SavePreprocess
    \/ Summary

Spec == Init /\ [][Next]_vars

TypeOK ==
    /\ pc \in {"detect", "load", "missing", "clean", "trends", "journals", "titles",
               "sources", "hist", "abstracts", "save", "summary", "loaded",
               "done", "raised", "call", "cleaned", "recleaned", "idle",
               "slider", "filter", "shown", "stopped"}
    /\ (err # "") = (pc = "raised")

(***************************************************************************)
(* Properties of the pipeline runs.                                        *)
(***************************************************************************)
Cleaners == {"main_top", "main_src", "preprocess"}

\* the cleaner of the run has returned a frame
Cleaned == entry \in Cleaners /\ df_clean # None

\* the step has been executed
Ran(step) == \E i \in DOMAIN ran : ran[i] = step

IntDtypes == {"int32", "int64"}

\* C1: after a cleaning operation no record has a null title, abstract,
\* journal or year, and every year is an integer
C1_NoNullAfterCleaning ==
    Cleaned =>
        /\ \A i \in DOMAIN df_clean.rows :
              /\ df_clean.rows[i].title # NaN
              /\ df_clean.rows[i].abstract # NaN
              /\ df_clean.rows[i].journal # NaN
              /\ df_clean.rows[i].year # YearNaN
        /\ df_clean.year_dtype \in IntDtypes

\* the year the claim C2 gives a record with this publish date
ExpectedYear(p) == IF p # NaN /\ IsISODate(p) THEN YearOf(p) ELSE FallbackYear

\* C2: on a file that has all four columns cleaning does not raise, a record
\* whose publish date is missing or unparseable gets the year 2020 and a
\* record whose date parses gets the year of that date
C2_FallbackYear ==
    (entry \in Cleaners /\ Ran("clean") /\ RawCols \subseteq file.table.cols) =>
        /\ df_clean # None
        /\ \A i \in DOMAIN df_clean.rows :
              df_clean.rows[i].year = ExpectedYear(file.table.rows[i].publish_time)

\* C3: the yearly counts of analyze_publication_trends sum to the row count of
\* the cleaned table
C3_YearlyCountsSum ==
    (entry \in MainEntries /\ Ran("trends")) =>
        SumCounts(results.yearly_counts) = Len(df_clean.rows)

\* C4: when the input file is absent every loader reports the problem and
\* returns None instead of raising
C4_AbsentFileReported ==
    (file.kind = "absent" /\ Ran("load")) =>
        /\ err = ""
        /\ df = None
        /\ reported

\* C5: with the input file absent, main() ends after the load step: no
\* profiler, cleaner or aggregator step runs and no file is written
C5_AbsentFileHalts ==
    (entry \in MainEntries /\ file.kind = "absent") =>
        /\ \A i \in DOMAIN ran : ran[i] = "load"
        /\ written = {}
        /\ snapshot = None
        /\ df_clean = None
        /\ results = NoResults
        /\ pc \in {"detect", "load", "done"}
        /\ (ran # <<>> => pc = "done")

\* a main function has returned on an absent file
C5_Witness ==
    /\ entry \in MainEntries /\ file.kind = "absent"
    /\ pc = "done" /\ ran = <<"load">> /\ reported

\* C8: the cleaner's output has as many rows as its input, in the same order,
\* and carries the columns year, abstract_word_count and has_abstract
C8_RowsPreserved ==
    Cleaned =>
        /\ Len(df_clean.rows) = Len(file.table.rows)
        /\ \A i \in DOMAIN df_clean.rows :
              /\ df_clean.rows[i].idx = file.table.rows[i].idx
              /\ file.table.rows[i].title # NaN =>
                     df_clean.rows[i].title = file.table.rows[i].title
        /\ {"year", "abstract_word_count", "has_abstract"} \subseteq df_clean.cols

\* a cleaner returned a frame of two or more rows, one of them with a
\* missing title it had to fill and one with a title it kept
C8_Witness ==
    /\ Cleaned
    /\ Len(df_clean.rows) >= 2
    /\ \E i, j \in DOMAIN file.table.rows :
          /\ file.table.rows[i].title = NaN
          /\ file.table.rows[j].title # NaN

\* C9: a file that has a title column is cleaned without raising whichever of
\* the other columns are absent, and the absent fields take their defaults
C9_OptionalColumns ==
    (entry \in Cleaners /\ Ran("clean") /\ "title" \in file.table.cols) =>
        /\ df_clean # None
        /\ \A i \in DOMAIN df_clean.rows :
              /\ "abstract" \notin file.table.cols => df_clean.rows[i].abstract = EmptyText
              /\ "journal" \notin file.table.cols => df_clean.rows[i].journal = UnknownJournal
              /\ "publish_time" \notin file.table.cols => df_clean.rows[i].year = FallbackYear

\* the read with the column subset failed (the file is there)
SubsetReadFailed ==
    /\ entry \in SubsetReaders
    /\ ran = <<"load">>
    /\ \E i \in DOMAIN reads : reads[i][1] = "subset" /\ reads[i][2] # ""

\* C10 as stated: when the read with the column subset fails the caller gets
\* the table read with all columns
C10_FallbackAlwaysLoads ==
    SubsetReadFailed => (err = "" /\ df = file.table)

\* C10 amended: when the read with the column subset fails the file is read
\* again with all columns; if that read succeeds the caller gets its table,
\* if it fails too load_and_explore_data returns None and
\* preprocess_and_save raises the second failure
C10_FallbackRead ==
    SubsetReadFailed =>
        LET n == Len(reads)
        IN /\ n >= 2
           /\ reads[n - 1][1] = "subset"
           /\ reads[n][1] = "all"
           /\ reads[n][2] = "" => (err = "" /\ df = file.table /\ pc = "clean")
           /\ reads[n][2] # "" =>
                 /\ entry = "main_src" => (err = "" /\ df = None /\ pc = "done")
                 /\ entry = "preprocess" => (err = reads[n][2] /\ pc = "raised")

\* the fallback read delivered a table after the subset read had failed
C10_Witness ==
    /\ SubsetReadFailed
    /\ entry = "main_src"
    /\ df = file.table
    /\ Len(df.rows) >= 1
    /\ reads = << <<"header", "">>, <<"subset", "ValueError">>, <<"all", "">> >>

\* the columns of the loaded table with at least one missing value
ColumnsWithMissing == {c \in df.cols : \E i \in DOMAIN df.rows : df.rows[i][c] = NaN}

\* C11: analyze_missing_data returns one (column, percentage) pair for
\* exactly the columns with a missing value, the percentage being
\* 100 * missing rows / total rows, in descending order of percentage
C11_MissingData ==
    Ran("missing") =>
        LET md == results.missing_data
        IN /\ {md[i][1] : i \in DOMAIN md} = ColumnsWithMissing
           /\ \A i, j \in DOMAIN md : i # j => md[i][1] # md[j][1]
           /\ \A i \in DOMAIN md :
                 /\ md[i][2].den > 0
                 /\ md[i][2].num * Len(df.rows) =
                        100 * isnull_sum(df, md[i][1]) * md[i][2].den
           /\ \A i, j \in DOMAIN md : i < j => RatioLeq(md[j][2], md[i][2])

\* a report of two columns with different percentages that leaves out a
\* column with no missing value
C11_Witness ==
    /\ Ran("missing")
    /\ Len(results.missing_data) >= 2
    /\ \E i, j \in DOMAIN results.missing_data :
          ~RatioLeq(results.missing_data[i][2], results.missing_data[j][2])
    /\ df.cols \ ColumnsWithMissing # {}

\* the profiler and aggregator steps of the two main functions
ProfilerSteps == {"missing"}
AggregatorSteps == {"trends", "journals", "titles", "sources", "hist", "abstracts"}

\* the steps of a complete run of each main function, in order
StepsOf(e) ==
    IF e = "main_top"
    THEN <<"load", "missing", "clean", "trends", "journals", "titles", "sources",
           "hist", "save", "summary">>
    ELSE <<"load", "clean", "trends", "journals", "titles", "abstracts", "save",
           "summary">>

IsPrefix(p, q) == Len(p) <= Len(q) /\ SubSeq(q, 1, Len(p)) = p

\* C12 as stated: every profiler and aggregator step of a pipeline run comes
\* after the cleaner step, so it runs on the table the cleaner produced
C12_CleanerFirst ==
    entry \in MainEntries =>
        \A i \in DOMAIN ran :
            ran[i] \in ProfilerSteps \cup AggregatorSteps =>
                \E j \in 1..(i - 1) : ran[j] = "clean"

\* C12 amended: the steps of a pipeline run occur in the order loader,
\* (main.py only: profiler, on the raw loaded table), cleaner, aggregators,
\* snapshot output, summary; every aggregator step comes after the cleaner
\* and computes its result from the table the cleaner produced
C12_PipelineOrder ==
    entry \in MainEntries =>
        /\ IsPrefix(ran, StepsOf(entry))
        /\ \A i \in DOMAIN ran :
              ran[i] \in AggregatorSteps => \E j \in 1..(i - 1) : ran[j] = "clean"
        /\ Ran("missing") =>
              /\ df = file.table
              /\ results.missing_data \in analyze_missing_data(file.table)
        /\ Ran("trends") => results.yearly_counts = yearly_counts_of(df_clean)
        /\ Ran("journals") =>
              \E order \in value_counts(column(df_clean, "journal")) :
                  results.top_journals = head(order, TopJournalsN)
        /\ Ran("abstracts") =>
              results.with_abstract =
                  Cardinality({i \in DOMAIN df_clean.rows : df_clean.rows[i].has_abstract})

\* a complete run of main.py over a table with a missing value, a year and
\* a journal to count
C12_Witness ==
    /\ entry = "main_top" /\ pc = "done"
    /\ ran = StepsOf("main_top")
    /\ results.missing_data # <<>>
    /\ results.yearly_counts # <<>>
    /\ results.top_journals # <<>>

\* what the cleaner of the main function returns for the loaded table
CleanerReturn ==
    IF entry = "main_top" THEN clean_and_prepare_data_dc(df).df
    ELSE clean_and_prepare_data_main(df).df

\* C16: once the cleaner has returned, the cleaned table stays what the
\* cleaner returned through every aggregator step and the summary, the
\* loaded table stays what was read, and the snapshot written is that
\* cleaned table
C16_CleanedTableReadOnly ==
    (entry \in MainEntries /\ Ran("clean") /\ df_clean # None) =>
        /\ df = file.table
        /\ df_clean = CleanerReturn
        /\ Ran("save") => snapshot = df_clean

\* a main function has run every step after the cleaner and written the
\* snapshot of a table with two records
C16_Witness ==
    /\ entry \in MainEntries /\ pc = "done"
    /\ Ran("trends") /\ Ran("journals") /\ Ran("titles") /\ Ran("summary")
    /\ Len(df_clean.rows) >= 2
    /\ snapshot = df_clean
    /\ snapshot # df

(***************************************************************************)
(* Direct calls of the journal ranking on a cleaned table, with the        *)
(* requested length as an argument: request.top_n stands for the literal   *)
(* 15 of analyze_journals and for the slider value of the dashboards.      *)
(***************************************************************************)
MaxJournalRows == 4
MaxTopN == 3

JournalNames == {<<"A">>, <<"B">>, <<"C">>}

\* the cleaned table of the given raw cells
CleanedFrame(n, title, journal) ==
    clean_and_prepare_data_main(
        Frame(RawCols, [i \in 1..n |-> RawRow(i - 1, title[i], NaN, journal[i], NaN)],
              "None")).df

JournalFrames(max_rows) ==
    UNION {{CleanedFrame(n, [i \in 1..n |-> NaN], j) : j \in [1..n -> JournalNames]} :
               n \in 0..max_rows}

InitCall(entries, frames) ==
    /\ entry \in entries
    /\ df_clean \in frames
    /\ request \in [top_n : 1..MaxTopN]
    /\ pc = "call"
    /\ file = File("good", EmptyFrame)
    /\ df = None
    /\ results = NoResults
    /\ ran = <<>>
    /\ written = {}
    /\ snapshot = None
    /\ err = ""
    /\ reported = FALSE
    /\ reads = <<>>
    /\ cache = NoCache
    /\ filtered_df = None

JournalEntries == {"analyze_journals", "journal_tab"}

InitJournals == InitCall(JournalEntries, JournalFrames(MaxJournalRows))

\* analyze_journals (both files) and the journal tab of app.py
AnalyzeJournals ==
    /\ entry = "analyze_journals" /\ pc = "call"
    /\ AfterJournals(value_counts(column(df_clean, "journal")), request.top_n, "done")

\* the journal tab of src/app/app.py
JournalTab ==
    /\ entry = "journal_tab" /\ pc = "call"
    /\ AfterJournals(safe_value_counts(column(df_clean, "journal"), Unknown),
                     request.top_n, "done")

NextJournals ==
    \/ AnalyzeJournals
    \/ JournalTab

SpecJournals == InitJournals /\ [][NextJournals]_vars

\* the number of records of the cleaned table with this journal
JournalCount(j) == Cardinality({i \in DOMAIN df_clean.rows : df_clean.rows[i].journal = j})

\* C7: the journal ranking has at most N entries, its counts are
\* non-increasing, each count is the number of records with that journal, and
\* no journal left out has a larger count than one included
C7_JournalRanking ==
    (entry \in JournalEntries /\ pc = "done") =>
        LET tj == results.top_journals
        IN /\ Len(tj) <= request.top_n
           /\ \A i, j \in DOMAIN tj : i < j => tj[i][2] >= tj[j][2]
           /\ \A i, j \in DOMAIN tj : i # j => tj[i][1] # tj[j][1]
           /\ \A i \in DOMAIN tj : tj[i][2] = JournalCount(tj[i][1])
           /\ \A r \in DOMAIN df_clean.rows :
                 LET j == df_clean.rows[r].journal
                 IN (\A i \in DOMAIN tj : tj[i][1] # j) =>
                        \A i \in DOMAIN tj : JournalCount(j) <= tj[i][2]

\* a ranking cut to N entries that leaves a journal out and has two counts
C7_Witness ==
    /\ entry \in JournalEntries /\ pc = "done"
    /\ Len(results.top_journals) = request.top_n
    /\ \E r \in DOMAIN df_clean.rows :
          \A i \in DOMAIN results.top_journals :
              results.top_journals[i][1] # df_clean.rows[r].journal
    /\ \E i, j \in DOMAIN results.top_journals :
          results.top_journals[i][2] > results.top_journals[j][2]

(***************************************************************************)
(* Direct calls of the title word analysis on a cleaned table, with the    *)
(* requested length as an argument: request.top_n stands for the literals  *)
(* 20 and 15 and for the slider value of src/app/app.py.                   *)
(***************************************************************************)
MaxTitles == 2
MaxTitleLen == 4

ExampleTitles ==
    <<<<"C","o","v","i","d","-","1","9"," ","S","t","u","d","y"," ","o","f"," ","L","u","n","g","s">>,
      <<"L","u","n","g"," ","S","t","u","d","y"," ","R","e","s","u","l","t","s">>>>

ExampleStopWords == {<<"c","o","v","i","d">>, <<"1","9">>, <<"s","t","u","d","y">>, <<"o","f">>}

TitleSamples ==
    {ExampleTitles[1], ExampleTitles[2],
     <<"T","h","e">>,
     <<"c","o","v","i","d","1","9"," ","l","u","n","g">>,
     <<"L","u","n","g"," ","l","u","n","g","_","x"," ","L","U","N","G">>,
     <<"o","f"," ","a","1","b"," ","a","b","c">>}

TitleAlphabet == {"t", "H", "e", "1", "_", " "}

\* the title lists tried: short lists of the samples, and every single title
\* over the alphabet up to the length bound
TitleLists(max_titles, max_len) ==
    UNION {[1..n -> TitleSamples] : n \in 0..max_titles}
    \cup {<<t>> : t \in UNION {[1..k -> TitleAlphabet] : k \in 0..max_len}}

TitleFrames(max_titles, max_len) ==
    {CleanedFrame(Len(ts), ts, [i \in 1..Len(ts) |-> NaN]) : ts \in TitleLists(max_titles, max_len)}

TitleEntries == {"analyze_titles_av", "analyze_titles_main", "title_tab_app",
                 "title_tab_app_opt"}

InitTitles == InitCall(TitleEntries, TitleFrames(MaxTitles, MaxTitleLen))

\* analysis_visualization.analyze_titles
AnalyzeTitlesAV ==
    /\ entry = "analyze_titles_av" /\ pc = "call"
    /\ AfterTitles(word_frequencies(title_texts(df_clean, TRUE), StopWordsAV),
                   request.top_n, {"top_title_words.png", "title_wordcloud.png"}, "done")

\* src/main.analyze_titles
AnalyzeTitlesMain ==
    /\ entry = "analyze_titles_main" /\ pc = "call"
    /\ AfterTitles(word_frequencies(title_texts(df_clean, FALSE), StopWordsMain),
                   request.top_n, {"top_title_words.png"}, "done")

\* the title tab of app.py
TitleTabApp ==
    /\ entry = "title_tab_app" /\ pc = "call"
    /\ AfterTitles(word_frequencies(title_texts(df_clean, FALSE), StopWordsApp),
                   request.top_n, {}, "done")

\* the title tab of src/app/app.py: the chart is drawn only `if top_words`
TitleTabAppOpt ==
    /\ entry = "title_tab_app_opt" /\ pc = "call"
    /\ LET word_freq == word_frequencies(title_texts(df_clean, FALSE), StopWordsAppOpt)
       IN results' = [results EXCEPT !.word_freq = word_freq,
                                     !.top_words = most_common(word_freq, request.top_n)]
    /\ ran' = Append(ran, "titles")
    /\ pc' = "done"
    /\ UNCHANGED <<cache, filtered_df, request, file, entry, df, df_clean, snapshot, err, reported,
                   reads, written>>

NextTitles ==
    \/ AnalyzeTitlesAV
    \/ AnalyzeTitlesMain
    \/ TitleTabApp
    \/ TitleTabAppOpt

SpecTitles == InitTitles /\ [][NextTitles]_vars

\* the stop words of the variant run
StopWordsOf(e) ==
    CASE e = "analyze_titles_av" -> StopWordsAV
      [] e = "analyze_titles_main" -> StopWordsMain
      [] e = "title_tab_app" -> StopWordsApp
      [] OTHER -> StopWordsAppOpt

\* lowercase letters only, three or more
IsToken(x) == Len(x) >= 3 /\ \A i \in DOMAIN x : IsLower(x[i])

\* how often x stands in s as a whole word: not touching a letter, a digit or
\* an underscore on either side
Occurrences(s, x) ==
    Cardinality({p \in 1..Len(s) - Len(x) + 1 :
                    /\ SubSeq(s, p, p + Len(x) - 1) = x
                    /\ p > 1 => ~IsWordChar(s[p - 1])
                    /\ p + Len(x) <= Len(s) => ~IsWordChar(s[p + Len(x)])})

\* the titles of the table, lowercased
LowerTitles == [i \in DOMAIN df_clean.rows |-> Lower(df_clean.rows[i].title)]

RECURSIVE SumOccurrences(_, _)
SumOccurrences(titles, x) ==
    IF titles = <<>> THEN 0
    ELSE Occurrences(Head(titles), x) + SumOccurrences(Tail(titles), x)

\* every piece of text of the lowercased titles
Pieces ==
    UNION {{SubSeq(LowerTitles[i], a, b) : a, b \in 1..Len(LowerTitles[i])} :
               i \in DOMAIN LowerTitles}

Range(q) == {q[i] : i \in DOMAIN q}

\* C6: the title word frequency counts exactly the lowercase alphabetic
\* tokens (whole words of letters) of length >= 3 that are not stop words,
\* each with its number of occurrences; the top-N list holds the N most
\* frequent of them; on the example titles, with the example stop words among
\* the variant's, lungs and results are counted once and study is not counted
C6_TitleWordFrequency ==
    (entry \in TitleEntries /\ pc = "done") =>
        LET wf == results.word_freq
            tw == results.top_words
            stop == StopWordsOf(entry)
        IN /\ \A i \in DOMAIN wf :
                 /\ IsToken(wf[i][1])
                 /\ wf[i][1] \notin stop
                 /\ wf[i][2] >= 1
                 /\ wf[i][2] = SumOccurrences(LowerTitles, wf[i][1])
           /\ \A i, j \in DOMAIN wf : i # j => wf[i][1] # wf[j][1]
           /\ \A x \in Pieces :
                 (IsToken(x) /\ x \notin stop /\ SumOccurrences(LowerTitles, x) >= 1) =>
                     \E i \in DOMAIN wf : wf[i][1] = x
           /\ Len(tw) = (IF Len(wf) < request.top_n THEN Len(wf) ELSE request.top_n)
           /\ Range(tw) \subseteq Range(wf)
           /\ \A i, j \in DOMAIN tw : i # j => tw[i] # tw[j]
           /\ \A x \in Range(wf) \ Range(tw) : \A i \in DOMAIN tw : x[2] <= tw[i][2]
           /\ ([i \in DOMAIN df_clean.rows |-> df_clean.rows[i].title] = ExampleTitles
                  /\ ExampleStopWords \subseteq stop) =>
                 /\ <<<<"l","u","n","g","s">>, 1>> \in Range(wf)
                 /\ <<<<"r","e","s","u","l","t","s">>, 1>> \in Range(wf)
                 /\ \A i \in DOMAIN wf : wf[i][1] # <<"s","t","u","d","y">>

\* the example titles analysed by src/main.analyze_titles, whose stop words
\* include the example's, with more words counted than the list may hold
C6_Witness ==
    /\ entry = "analyze_titles_main" /\ pc = "done"
    /\ [i \in DOMAIN df_clean.rows |-> df_clean.rows[i].title] = ExampleTitles
    /\ Len(results.word_freq) > request.top_n
    /\ Len(results.top_words) = request.top_n

\* C20: the title word analysis of every variant completes without raising
\* and returns the frequency count, also when no token survives the filters
\* and the top-words list is empty
C20_TitlesNeverRaise ==
    (entry \in TitleEntries /\ Ran("titles")) =>
        /\ err = ""
        /\ pc = "done"
        /\ results.word_freq =
               word_frequencies(title_texts(df_clean, entry = "analyze_titles_av"),
                                StopWordsOf(entry))

(***************************************************************************)
(* Direct calls of the three cleaners on a table that has the four         *)
(* columns, each followed by a second call on the table the first          *)
(* returned.                                                               *)
(***************************************************************************)
MaxCleanRows == 2

AbstractSamples == {NaN, <<" ">>, <<" ","a"," "," ","b"," ">>}
DateSamples == {NaN, <<"2","0","1","9","-","0","6","-","3","0">>}

CleanCells ==
    [title : TitleValues, abstract : AbstractSamples, journal : JournalValues,
     publish_time : DateSamples]

CleanEntries == {"clean_dc", "clean_main", "clean_preprocess"}

\* the cleaner of the variant, applied to a table
CleanBy(e, t) ==
    CASE e = "clean_dc" -> clean_and_prepare_data_dc(t)
      [] e = "clean_main" -> clean_and_prepare_data_main(t)
      [] OTHER -> clean_preprocess(t)

InitClean ==
    /\ entry \in CleanEntries
    /\ \E n \in 0..MaxCleanRows :
         \E c \in [1..n -> CleanCells] :
             /\ file = File("good", FrameOf(RawCols, c))
             /\ df = FrameOf(RawCols, c)
    /\ pc = "call"
    /\ df_clean = None
    /\ request = NoRequest
    /\ results = NoResults
    /\ ran = <<>>
    /\ written = {}
    /\ snapshot = None
    /\ err = ""
    /\ reported = FALSE
    /\ reads = <<>>
    /\ cache = NoCache
    /\ filtered_df = None

\* the cleaner called on the loaded table
CleanCall ==
    /\ entry \in CleanEntries /\ pc = "call"
    /\ AfterClean(CleanBy(entry, df), "cleaned")

\* the cleaner called again, on the table it returned
CleanAgain ==
    /\ entry \in CleanEntries /\ pc = "cleaned"
    /\ LET c == CleanBy(entry, df_clean)
       IN /\ df' = df_clean
          /\ df_clean' = c.df
          /\ err' = c.err
          /\ pc' = IF c.err # "" THEN "raised" ELSE "recleaned"
    /\ ran' = Append(ran, "clean")
    /\ UNCHANGED <<cache, filtered_df, request, file, entry, results, written, snapshot, reported, reads>>

NextClean ==
    \/ CleanCall
    \/ CleanAgain

SpecClean == InitClean /\ [][NextClean]_vars

\* C13: the abstract word count a cleaner stores is the count re-derived
\* from the cleaned abstract, and cleaning the cleaned table again gives
\* every record the same abstract word count and has-abstract flag
C13_WordCountIdempotent ==
    /\ (entry \in CleanEntries /\ pc \in {"cleaned", "recleaned"}) =>
           \A i \in DOMAIN df_clean.rows :
               df_clean.rows[i].abstract_word_count = WordCount(df_clean.rows[i].abstract)
    /\ (entry \in CleanEntries /\ pc = "recleaned") =>
           /\ Len(df_clean.rows) = Len(df.rows)
           /\ \A i \in DOMAIN df_clean.rows :
                 /\ df_clean.rows[i].abstract_word_count = df.rows[i].abstract_word_count
                 /\ df_clean.rows[i].has_abstract = df.rows[i].has_abstract
    /\ (entry \in CleanEntries /\ Ran("clean")) => err = ""

\* a table cleaned twice that has a record whose abstract was missing and a
\* record with an abstract of two words and surplus blanks
C13_Witness ==
    /\ entry \in CleanEntries /\ pc = "recleaned"
    /\ \E i, j \in DOMAIN df_clean.rows :
          /\ file.table.rows[i].abstract = NaN
          /\ df_clean.rows[i].abstract_word_count = 0
          /\ file.table.rows[j].abstract = <<" ","a"," "," ","b"," ">>
          /\ df_clean.rows[j].abstract_word_count = 2

\* the fields the claim C18 compares
ComparedFields == {"title", "abstract", "journal", "year", "abstract_word_count",
                   "has_abstract"}

\* C18: the three cleaners give every record of the same input table the
\* same title, abstract, journal, year, abstract word count and has-abstract
C18_CleanersAgree ==
    (entry \in CleanEntries /\ pc = "cleaned") =>
        \A e \in CleanEntries :
            LET other == CleanBy(e, df)
            IN /\ other.err = ""
               /\ Len(other.df.rows) = Len(df_clean.rows)
               /\ \A i \in DOMAIN df_clean.rows : \A f \in ComparedFields :
                     other.df.rows[i][f] = df_clean.rows[i][f]

(***************************************************************************)
(* The two dashboards as Streamlit processes: every interaction runs the   *)
(* script again from the top; st.cache_data keeps the loader's return      *)
(* values between the runs.  A run is modelled up to the metrics row; the  *)
(* tabs below it are the direct calls of the specifications above.         *)
(***************************************************************************)
MaxDashRows == 2

DashRows ==
    {[title |-> <<"T","h","e">>, abstract |-> <<"a"," ","b">>, journal |-> <<"A">>,
      publish_time |-> <<"2","0","1","8","-","0","3","-","0","1">>],
     [title |-> <<"T","h","e">>, abstract |-> <<" ">>, journal |-> <<"B">>,
      publish_time |-> <<"2","0","2","0","-","0","5","-","1","7">>],
     [title |-> <<"T","h","e">>, abstract |-> NaN, journal |-> <<"A">>,
      publish_time |-> NaN],
     [title |-> <<"T","h","e">>, abstract |-> <<"a"," ","b">>, journal |-> <<"B">>,
      publish_time |-> <<"2","0","2","1","-","1","1","-","0","2">>],
     [title |-> NaN, abstract |-> <<"a"," ","b">>, journal |-> <<"A">>,
      publish_time |-> <<"2","0","2","0","-","0","1","-","3","1">>],
     [title |-> <<"T","h","e">>, abstract |-> NaN, journal |-> NaN,
      publish_time |-> <<"2","0","1","8","-","1","2","-","3","1">>],
     [title |-> <<"T","h","e">>, abstract |-> <<"a"," ","b">>, journal |-> <<"A">>,
      publish_time |-> <<"2","0","2","1","-","0","2","-","3","0">>]}

DashEntries == {"app", "app_opt"}

CsvFile == "metadata.csv"
SampleFile == "data/metadata_sample.parquet"
FullFile == "data/metadata_optimized.parquet"

\* df.sample(min(10000, len(df)), random_state=42) written without its
\* index: the rows of a short table in a shuffled order
sample(t) ==
    [t EXCEPT !.rows = [i \in DOMAIN @ |->
                           [@[Len(@) + 1 - i] EXCEPT !.idx = i - 1]]]

All == <<"A","l","l">>

IdleRequest == [use_sample |-> FALSE, min_year |-> 0, max_year |-> 0,
                slider_range |-> <<0, 0>>, default_range |-> <<0, 0>>,
                year_range |-> <<0, 0>>, selected_journal |-> All]

InitDashboard ==
    /\ \E n \in 0..MaxDashRows :
         \E c \in [1..n -> DashRows] :
             LET raw == FrameOf(RawCols, c)
                 full == clean_preprocess(raw).df
             IN \/ /\ entry = "app"
                   /\ file = [x \in {CsvFile} |-> File("good", raw)]
                \/ /\ entry = "app_opt"
                   /\ file = [x \in {SampleFile, FullFile} |->
                                 File("good", IF x = SampleFile THEN sample(full) ELSE full)]
    /\ pc = "idle"
    /\ df = None
    /\ df_clean = None
    /\ filtered_df = None
    /\ cache = NoCache
    /\ request = IdleRequest
    /\ results = NoResults
    /\ ran = <<>>
    /\ written = {}
    /\ snapshot = None
    /\ err = ""
    /\ reported = FALSE
    /\ reads = <<>>

\* the cache key of a call: the function and its arguments
CacheKey_no_args(f, args) == <<f>>
CacheKey(f, args) == <<f>> \o args

\* a call of a function decorated with st.cache_data: a cached value is
\* returned without running the function (and its st.error is replayed);
\* otherwise the function runs and its return value, None included, is
\* stored; an exception is not stored
CachedCall(key, o, none_pc) ==
    /\ IF key \in DOMAIN cache
       THEN /\ df' = cache[key]
            /\ err' = ""
            /\ reads' = <<>>
            /\ reported' = (cache[key] = None)
            /\ cache' = cache
       ELSE /\ df' = o.df
            /\ err' = o.err
            /\ reads' = o.reads
            /\ reported' = o.reported
            /\ cache' = IF o.err # "" THEN cache
                        ELSE [k \in DOMAIN cache \cup {key} |->
                                 IF k = key THEN o.df ELSE cache[k]]
    /\ pc' = IF err' # "" THEN "raised" ELSE IF is_none(df') THEN none_pc ELSE "slider"
    /\ ran' = Append(ran, "load")
    /\ UNCHANGED <<file, entry, df_clean, filtered_df, results, written, snapshot>>

\* app.py: df = load_data(); `if df is None: return`
LoadDataCached ==
    /\ entry = "app" /\ pc = "idle"
    /\ request' = request
    /\ CachedCall(CacheKey("load_data", <<>>), load_data(file[CsvFile]), "done")

\* src/app/app.py: the checkbox, df = load_optimized_data(use_sample);
\* `if df is None: st.stop()`
LoadOptimizedCached ==
    /\ entry = "app_opt" /\ pc = "idle"
    /\ \E use_sample \in BOOLEAN :
           /\ request' = [request EXCEPT !.use_sample = use_sample]
           /\ CachedCall(CacheKey("load_optimized_data", <<use_sample>>),
                         load_optimized_data(file[IF use_sample THEN SampleFile
                                                  ELSE FullFile]),
                         "stopped")

SetMin(S) == CHOOSE x \in S : \A y \in S : x <= y
SetMax(S) == CHOOSE x \in S : \A y \in S : y <= x

\* df['year'] without its NaN, which min() and max() skip
Years(t) == {t.rows[i].year : i \in DOMAIN t.rows} \ {YearNaN}

\* st.slider(label, min_value, max_value, value) with a range value: a value
\* inside the bounds is taken as it is; for one outside, Streamlit either
\* raises StreamlitAPIException or, in the releases that adjust, swaps a
\* reversed range and widens the bounds to hold it
slider(min_value, max_value, value) ==
    IF min_value <= value[1] /\ value[1] <= value[2] /\ value[2] <= max_value
    THEN {[err |-> "", min_value |-> min_value, max_value |-> max_value, value |-> value]}
    ELSE LET start == IF value[1] > value[2] THEN value[2] ELSE value[1]
             end == IF value[1] > value[2] THEN value[1] ELSE value[2]
         IN {[err |-> "StreamlitAPIException", min_value |-> min_value,
              max_value |-> max_value, value |-> value],
             [err |-> "", min_value |-> IF start < min_value THEN start ELSE min_value,
              max_value |-> IF end > max_value THEN end ELSE max_value,
              value |-> <<start, end>>]}

\* the default value of the year slider: (2020, max_year) in app.py,
\* (max(2019, min_year), max_year) in src/app/app.py
default_value(e, min_year, max_year) ==
    IF e = "app" THEN <<2020, max_year>>
    ELSE <<IF 2019 > min_year THEN 2019 ELSE min_year, max_year>>

\* min_year, max_year = int(df['year'].min()), int(df['year'].max()) and the
\* year slider with its default value; int(nan) raises ValueError
YearSlider ==
    /\ pc = "slider"
    /\ ran' = Append(ran, "slider")
    /\ IF Years(df) = {}
       THEN /\ err' = "ValueError"
            /\ pc' = "raised"
            /\ request' = request
       ELSE LET min_year == SetMin(Years(df))
                max_year == SetMax(Years(df))
            IN \E o \in slider(min_year, max_year,
                                default_value(entry, min_year, max_year)) :
                   /\ err' = o.err
                   /\ pc' = IF o.err # "" THEN "raised" ELSE "filter"
                   /\ request' = [request EXCEPT !.min_year = min_year,
                                                 !.max_year = max_year,
                                                 !.slider_range = <<o.min_value, o.max_value>>,
                                                 !.default_range = o.value]
    /\ UNCHANGED <<cache, filtered_df, file, entry, df, df_clean, results, written,
                   snapshot, reported, reads>>

\* app.py lines 50-57
SliderApp ==
    /\ entry = "app"
    /\ YearSlider

\* src/app/app.py lines 59-64
SliderAppOpt ==
    /\ entry = "app_opt"
    /\ YearSlider

\* df[(df['year'] >= lo) & (df['year'] <= hi)]: a comparison with NaN is False
filter_year_exclusive(t, lo, hi) ==
    [t EXCEPT !.rows = SelectSeq(@, LAMBDA r : r.year # YearNaN /\ r.year > lo /\ r.year <= hi)]
filter_year(t, lo, hi) ==
    [t EXCEPT !.rows = SelectSeq(@, LAMBDA r : r.year # YearNaN /\ r.year >= lo /\ r.year <= hi)]

\* filtered_df[filtered_df['journal'] == selected_journal] unless 'All'
filter_journal(t, selected_journal) ==
    IF selected_journal = All THEN t
    ELSE [t EXCEPT !.rows = SelectSeq(@, LAMBDA r : r.journal = selected_journal)]

\* the range the user leaves or sets on the slider
SliderRanges == {v \in (request.slider_range[1]..request.slider_range[2])
                          \X (request.slider_range[1]..request.slider_range[2]) :
                     v[1] <= v[2]}

\* app.py: the journal selectbox, the filters and the metrics row;
\* "Papers with Abstracts" is abstract.str.len().gt(0).sum()
FilterApp ==
    /\ entry = "app" /\ pc = "filter"
    /\ \E year_range \in SliderRanges,
          selected_journal \in {All} \cup {df.rows[i].journal : i \in DOMAIN df.rows} :
           LET f == filter_journal(filter_year(df, year_range[1], year_range[2]),
                                   selected_journal)
           IN /\ request' = [request EXCEPT !.year_range = year_range,
                                            !.selected_journal = selected_journal]
              /\ filtered_df' = f
              /\ results' = [results EXCEPT
                     !.total_papers = Len(f.rows),
                     !.with_abstract =
                         Cardinality({i \in DOMAIN f.rows : Len(f.rows[i].abstract) > 0})]
    /\ ran' = Append(ran, "filter")
    /\ pc' = "shown"
    /\ UNCHANGED <<cache, file, entry, df, df_clean, written, snapshot, err, reported, reads>>

\* src/app/app.py: the year filter and the metrics row; "With Abstracts" is
\* filtered_df['has_abstract'].sum()
FilterAppOpt ==
    /\ entry = "app_opt" /\ pc = "filter"
    /\ \E year_range \in SliderRanges :
           LET f == filter_year(df, year_range[1], year_range[2])
           IN /\ request' = [request EXCEPT !.year_range = year_range]
              /\ filtered_df' = f
              /\ results' = [results EXCEPT
                     !.total_papers = Len(f.rows),
                     !.with_abstract =
                         Cardinality({i \in DOMAIN f.rows : f.rows[i].has_abstract})]
    /\ ran' = Append(ran, "filter")
    /\ pc' = "shown"
    /\ UNCHANGED <<cache, file, entry, df, df_clean, written, snapshot, err, reported, reads>>

\* the next interaction: the script's variables are gone, the cache stays
Rerun ==
    /\ entry \in DashEntries /\ pc \in {"shown", "done", "stopped", "raised"}
    /\ pc' = "idle"
    /\ df' = None
    /\ filtered_df' = None
    /\ request' = IdleRequest
    /\ results' = NoResults
    /\ ran' = <<>>
    /\ err' = ""
    /\ reported' = FALSE
    /\ reads' = <<>>
    /\ UNCHANGED <<cache, file, entry, df_clean, written, snapshot>>

\* between two runs a data file is deleted
DeleteFile ==
    /\ entry \in DashEntries /\ pc = "idle"
    /\ \E x \in DOMAIN file :
           /\ file[x].kind = "good"
           /\ file' = [file EXCEPT ![x].kind = "absent"]
    /\ UNCHANGED <<cache, filtered_df, request, entry, pc, df, df_clean, results, ran,
                   written, snapshot, err, reported, reads>>

\* between two runs a deleted data file is written again
WriteFile ==
    /\ entry \in DashEntries /\ pc = "idle"
    /\ \E x \in DOMAIN file :
           /\ file[x].kind = "absent"
           /\ file' = [file EXCEPT ![x].kind = "good"]
    /\ UNCHANGED <<cache, filtered_df, request, entry, pc, df, df_clean, results, ran,
                   written, snapshot, err, reported, reads>>

\* src/app/app.py: ttl=3600, an entry older than an hour is dropped
Expire ==
    /\ entry = "app_opt" /\ pc = "idle"
    /\ \E key \in DOMAIN cache :
           cache' = [k \in DOMAIN cache \ {key} |-> cache[k]]
    /\ UNCHANGED <<filtered_df, request, file, entry, pc, df, df_clean, results, ran,
                   written, snapshot, err, reported, reads>>

NextDashboard ==
    \/ LoadDataCached
    \/ LoadOptimizedCached
    \/ SliderApp
    \/ SliderAppOpt
    \/ FilterApp
    \/ FilterAppOpt
    \/ Rerun
    \/ DeleteFile
    \/ WriteFile
    \/ Expire

SpecDashboard == InitDashboard /\ [][NextDashboard]_vars

\* C14: has-abstract is true exactly when the abstract's whitespace-split
\* word count is greater than 0, and the "papers with abstracts" figure a
\* dashboard shows is the number of records shown whose has-abstract is true
C14_AbstractFigure ==
    (entry \in DashEntries /\ pc = "shown") =>
        /\ "has_abstract" \in filtered_df.cols =>
               \A i \in DOMAIN filtered_df.rows :
                   /\ filtered_df.rows[i].abstract_word_count =
                          WordCount(filtered_df.rows[i].abstract)
                   /\ filtered_df.rows[i].has_abstract =
                          (filtered_df.rows[i].abstract_word_count > 0)
        /\ results.with_abstract =
               Cardinality({i \in DOMAIN filtered_df.rows :
                               WordCount(filtered_df.rows[i].abstract) > 0})

\* the record is inside the year range and the journal selection of the run
Selected(r) ==
    /\ r.year # YearNaN
    /\ request.year_range[1] <= r.year
    /\ r.year <= request.year_range[2]
    /\ request.selected_journal # All => r.journal = request.selected_journal

\* the table the loader of the run returns for the file it reads
LoadedTable ==
    IF entry = "app" THEN clean_app(file[CsvFile].table).df
    ELSE file[IF request.use_sample THEN SampleFile ELSE FullFile].table

\* C15: the filtered table holds exactly the records of the loaded table
\* inside the chosen year range (and of the chosen journal unless 'All'), in
\* their original order, 'Total Papers' is their number, and the loaded
\* table is what it was before the filtering
C15_FilteredTable ==
    (entry \in DashEntries /\ pc = "shown") =>
        /\ filtered_df.cols = df.cols
        /\ \A i \in DOMAIN filtered_df.rows :
              /\ Selected(filtered_df.rows[i])
              /\ \E j \in DOMAIN df.rows : df.rows[j] = filtered_df.rows[i]
        /\ \A j \in DOMAIN df.rows :
              Selected(df.rows[j]) =>
                  \E i \in DOMAIN filtered_df.rows : filtered_df.rows[i] = df.rows[j]
        /\ \A i, k \in DOMAIN filtered_df.rows :
              i < k => filtered_df.rows[i].idx < filtered_df.rows[k].idx
        /\ results.total_papers = Len(filtered_df.rows)
        /\ results.total_papers =
               Cardinality({j \in DOMAIN df.rows : Selected(df.rows[j])})
        /\ df = LoadedTable

\* a journal and a year range are chosen that keep one record of the loaded
\* table, at the lower end of the range, and leave one out
C15_Witness ==
    /\ entry = "app" /\ pc = "shown"
    /\ request.selected_journal # All
    /\ Len(df.rows) = 2
    /\ Len(filtered_df.rows) = 1
    /\ filtered_df.rows[1].year = request.year_range[1]
    /\ request.year_range[1] < request.year_range[2]

\* C19: the default selection (lo, hi) of the year slider satisfies
\* min_year <= lo <= hi <= max_year, the smallest and largest year of the
\* loaded table
C19_DefaultRange ==
    (entry \in DashEntries /\ pc = "filter") =>
        /\ SetMin(Years(df)) <= request.default_range[1]
        /\ request.default_range[1] <= request.default_range[2]
        /\ request.default_range[2] <= SetMax(Years(df))

\* the loader calls a dashboard can make, and the table each returns when
\* its file is there
LoaderCalls ==
    {<<"load_data">>, <<"load_optimized_data", TRUE>>, <<"load_optimized_data", FALSE>>}

CallTable(call) ==
    IF call = <<"load_data">> THEN clean_app(file[CsvFile].table).df
    ELSE file[IF call[2] THEN SampleFile ELSE FullFile].table

\* one step of a dashboard process, seen from the cache
MemoizedStep ==
    LET call == IF entry = "app" THEN <<"load_data">>
                ELSE <<"load_optimized_data", request'.use_sample>>
    IN /\ (pc = "idle" /\ pc' # "idle") =>
             IF call \in DOMAIN cache
             THEN /\ df' = cache[call]
                  /\ reads' = <<>>
                  /\ cache' = cache
             ELSE /\ Len(reads') = 1
                  /\ df' \in {None, CallTable(call)}
                  /\ DOMAIN cache' = DOMAIN cache \cup {call}
                  /\ cache'[call] = df'
                  /\ \A k \in DOMAIN cache : cache'[k] = cache[k]
       /\ pc # "idle" => cache' = cache
       /\ (pc = "idle" /\ pc' = "idle") =>
             /\ DOMAIN cache' \subseteq DOMAIN cache
             /\ \A k \in DOMAIN cache' : cache'[k] = cache[k]
       /\ DOMAIN cache' \subseteq LoaderCalls
       /\ \A k \in DOMAIN cache' : cache'[k] \in {None, CallTable(k)}

\* C17: a request whose use_sample value has a valid cache entry gets the
\* memoized value and reads no file; one without reads the file once and
\* its return value becomes the entry of that value only; an entry is the
\* value returned for its own use_sample value and no step changes it
\* (between runs an entry can only expire)
C17_Memoized == [][(entry \in DashEntries) => MemoizedStep]_vars

\* a request for the sample served from the cache after the sample file was
\* deleted, while the cache also holds a different table for the full data
C17_Witness ==
    /\ entry = "app_opt" /\ pc = "slider"
    /\ request.use_sample
    /\ reads = <<>>
    /\ file[SampleFile].kind = "absent"
    /\ df = file[SampleFile].table
    /\ <<"load_optimized_data", FALSE>> \in DOMAIN cache
    /\ cache[<<"load_optimized_data", FALSE>>] \notin {None, df}

====
